---- MODULE Spec2Model ----
(***************************************************************************)
(* Model of the postal-code centroid pipeline of decasaalcole-data:        *)
(*   postcodes/dcac_postcodes/compute_centroids.py  (centroid engine)      *)
(*   postcodes/dcac_postcodes/extract_postcodes.py  (partitioner)          *)
(*   postcodes/src/process.py                       (batch orchestrator)   *)
(*                                                                         *)
(* Two specifications share the module:                                    *)
(*   SpecCentroid  compute_centroid applied to one partition file, drawn   *)
(*                 from a bounded family of files, then applied again to   *)
(*                 a permutation of the same rows;                         *)
(*   Spec          Process.process(): partition the province datasets,     *)
(*                 compute one centroid per partition file, write the      *)
(*                 final table.                                            *)
(*                                                                         *)
(* Coordinates are integers (metres).  Distances to a cluster mean are     *)
(* compared exactly (see DistKey); pct is held in hundredths of a percent. *)
(***************************************************************************)
EXTENDS Integers, Sequences, FiniteSets, TLC

(***************************************************************************)
(* Program constants: CLUSTERING_PARAMETERS (dcac_postcodes/config.py).    *)
(***************************************************************************)
eps == 250

min_samples == 20

(***************************************************************************)
(* Bounds of the model.                                                    *)
(***************************************************************************)
\* number of sites (positions 200 m apart along a zigzag) a file's rows lie on
NumSites == 4

(***************************************************************************)
(* CSV cells.  A coordinate cell is the text of a number ("num", v), a     *)
(* text float() refuses ("text"), or the text of a non-finite float        *)
(* ("nan").  A Python None (the sentinel's x and y) is the cell "None".    *)
(***************************************************************************)
Num(v) == [k |-> "num", v |-> v]

NoneCell == [k |-> "None", v |-> 0]

TextCell == [k |-> "text", v |-> 0]

NanCell == [k |-> "nan", v |-> 0]

\* the columns extract_postcodes writes: x, y and STREET_NUMBERS_FIELDS
PartitionColumns == {"x", "y", "id_porpk", "codigo_postal", "tipo_vial", "poblacion"}

\* one row of a partition file, as csv.DictReader yields it
Row(x, y, id, cp, town) ==
  [x |-> x, y |-> y, id_porpk |-> id, codigo_postal |-> cp, poblacion |-> town]

\* float(row["x"]) succeeds: on the text of a number, and on "nan" / "inf"
float_ok(cell) == cell.k \in {"num", "nan"}

(***************************************************************************)
(* DBSCAN(eps, min_samples, metric="euclidean").fit_predict(np_rows), as   *)
(* scikit-learn computes it: a point's neighbourhood is every point within *)
(* eps of it (itself included); a core sample has at least min_samples     *)
(* neighbours; the points are visited in row order, every unlabelled core  *)
(* sample starts the next cluster label, and the cluster takes every still *)
(* unlabelled point reachable from it through core samples.  Every other   *)
(* point keeps the label -1 (noise).                                       *)
(***************************************************************************)
\* a numpy array: the sequence s, held as its evaluated elements
Array(s) == SubSeq(s, 1, Len(s))

Sq(a) == a * a

Dist2(p, q) == Sq(p[1] - q[1]) + Sq(p[2] - q[2])

Neighborhoods(np_rows) ==
  Array([i \in DOMAIN np_rows |->
     {j \in DOMAIN np_rows : Dist2(np_rows[i], np_rows[j]) <= Sq(eps)}])

CoreSamples(nb) == {i \in DOMAIN nb : Cardinality(nb[i]) >= min_samples}

RECURSIVE Expand(_, _, _, _)
Expand(nb, core, frontier, seen) ==
  IF frontier = {} THEN seen
  ELSE LET new == (UNION {nb[i] : i \in frontier \cap core}) \ seen
       IN Expand(nb, core, new, seen \cup new)

RECURSIVE dbscan_inner(_, _, _, _, _)
dbscan_inner(nb, core, i, label_num, labels) ==
  IF i > Len(labels) THEN labels
  ELSE IF labels[i] # -1 \/ i \notin core
       THEN dbscan_inner(nb, core, i + 1, label_num, labels)
       ELSE LET members == {v \in Expand(nb, core, {i}, {i}) : labels[v] = -1}
            IN dbscan_inner(nb, core, i + 1, label_num + 1,
                 Array([v \in DOMAIN labels |->
                    IF v \in members THEN label_num ELSE labels[v]]))

fit_predict(np_rows) ==
  LET nb == Neighborhoods(np_rows)
      core == CoreSamples(nb)
  IN dbscan_inner(nb, core, 1, 0, [i \in DOMAIN np_rows |-> -1])

(***************************************************************************)
(* compute_centroid (dcac_postcodes/compute_centroids.py).                 *)
(*                                                                         *)
(* A partition file is [csv, readable, header, rows]: whether its path     *)
(* ends in ".csv", whether open() and the csv reader succeed, the set of   *)
(* column names of its header line, and its data rows.                     *)
(*                                                                         *)
(* What a call yields is a record whose field ret says how it ended:       *)
(*   "dict"   a result dictionary was returned; keys are its keys;         *)
(*   "None"   the function logged an error and returned None;              *)
(*   "raise"  an exception (exc) left the function.                        *)
(***************************************************************************)
SentinelKeys == {"pct", "num_points", "codigo_postal", "poblacion", "x", "y"}

ResultDict(keys, pct, num_points, x, y, id, cp, town) ==
  [ret |-> "dict", exc |-> "", keys |-> keys, pct |-> pct, num_points |-> num_points,
   x |-> x, y |-> y, id_porpk |-> id, codigo_postal |-> cp, poblacion |-> town]

NoResult(ret, exc) ==
  [ret |-> ret, exc |-> exc, keys |-> {}, pct |-> 0, num_points |-> 0,
   x |-> NoneCell, y |-> NoneCell, id_porpk |-> 0, codigo_postal |-> "", poblacion |-> ""]

ReturnNone == NoResult("None", "")

Raise(exc) == NoResult("raise", exc)

\* np_rows = np.array([[float(row["x"]), float(row["y"])] for row in rows])
NpRows(rows) == Array([i \in DOMAIN rows |-> <<rows[i].x.v, rows[i].y.v>>])

\* labels = np.unique(clusters): the distinct labels, ascending
RECURSIVE Ascending(_)
Ascending(S) ==
  IF S = {} THEN <<>>
  ELSE LET m == CHOOSE a \in S : \A b \in S : a <= b
       IN <<m>> \o Ascending(S \ {m})

unique(clusters) == Ascending({clusters[i] : i \in DOMAIN clusters})

\* variant of Members: the noise rows are taken along
MembersWithNoise(clusters, label) ==
  {i \in DOMAIN clusters : clusters[i] \in {label, -1}}

\* the mask clusters == label
Members(clusters, label) == {i \in DOMAIN clusters : clusters[i] = label}

RECURSIVE SumOver(_, _, _)
SumOver(np_rows, S, d) ==
  IF S = {} THEN 0
  ELSE LET i == CHOOSE j \in S : TRUE
       IN np_rows[i][d] + SumOver(np_rows, S \ {i}, d)

\* np.sum(clusters == label)
NumPointsInCluster(clusters, label) == Cardinality(Members(clusters, label))

\* np.mean(np_rows[clusters == label], axis=0), kept exact as (sum, count):
\* the mean is the point (sx / n, sy / n)
Mean(np_rows, clusters, label) ==
  LET S == Members(clusters, label)
  IN [sx |-> SumOver(np_rows, S, 1), sy |-> SumOver(np_rows, S, 2), n |-> Cardinality(S)]

\* variant of LabelCentroids: the noise label is not skipped
RECURSIVE LabelCentroidsWithNoise(_, _, _)
LabelCentroidsWithNoise(np_rows, clusters, labels) ==
  IF labels = <<>> THEN <<>>
  ELSE <<[label |-> Head(labels),
          centroid |-> Mean(np_rows, clusters, Head(labels)),
          num_points |-> NumPointsInCluster(clusters, Head(labels))]>>
       \o LabelCentroidsWithNoise(np_rows, clusters, Tail(labels))

\* the for loop over labels that skips -1 and appends to label_centroids
RECURSIVE LabelCentroids(_, _, _)
LabelCentroids(np_rows, clusters, labels) ==
  IF labels = <<>> THEN <<>>
  ELSE LET label == Head(labels)
           rest == LabelCentroids(np_rows, clusters, Tail(labels))
       IN IF label # -1
          THEN <<[label |-> label,
                  centroid |-> Mean(np_rows, clusters, label),
                  num_points |-> NumPointsInCluster(clusters, label)]>> \o rest
          ELSE rest

\* variant of DistKey: the distance along x alone
DistKeyAlongX(p, c) == c.n * Sq(p[1]) - 2 * (p[1] * c.sx)

\* np.linalg.norm(p - centroid) orders the rows p as DistKey does:
\* n^2 * |p - S/n|^2 = n * (n*|p|^2 - 2*(p . S)) + |S|^2, and n > 0.
DistKey(p, c) == c.n * (Sq(p[1]) + Sq(p[2])) - 2 * (p[1] * c.sx + p[2] * c.sy)

\* variant of argmin: np.argmax, the first index that attains the maximum
argmax(np_rows, c) ==
  CHOOSE i \in DOMAIN np_rows :
    /\ \A j \in DOMAIN np_rows : DistKey(np_rows[i], c) >= DistKey(np_rows[j], c)
    /\ \A j \in 1..(i - 1) : DistKey(np_rows[j], c) < DistKey(np_rows[i], c)

\* np.argmin(distances): the first index that attains the minimum
argmin(np_rows, c) ==
  CHOOSE i \in DOMAIN np_rows :
    /\ \A j \in DOMAIN np_rows : DistKey(np_rows[i], c) <= DistKey(np_rows[j], c)
    /\ \A j \in 1..(i - 1) : DistKey(np_rows[j], c) > DistKey(np_rows[i], c)

\* variant of pct_of: the percentage cut off after 2 decimals, not rounded
pct_truncated(num_points, num_rows) == (num_points * 10000) \div num_rows

\* variant of pct_of: the ratio taken the wrong way round
pct_inverted(num_points, num_rows) == (num_rows * 10000) \div num_points

\* round(num_points / num_rows * 100, 2), in hundredths; Python rounds an
\* exactly representable tie to the even neighbour
pct_of(num_points, num_rows) ==
  LET q == (num_points * 10000) \div num_rows
      r == (num_points * 10000) % num_rows
  IN IF 2 * r < num_rows THEN q
     ELSE IF 2 * r > num_rows THEN q + 1
     ELSE IF q % 2 = 0 THEN q ELSE q + 1

\* the dictionary {"pct": .., "num_points": .., **closest_point}
ClosestPointResult(header, rows, np_rows, label_centroid) ==
  LET closest_point == rows[argmin(np_rows, label_centroid.centroid)]
  IN ResultDict({"pct", "num_points"} \cup header,
                pct_of(label_centroid.num_points, Len(rows)),
                label_centroid.num_points,
                closest_point.x, closest_point.y, closest_point.id_porpk,
                closest_point.codigo_postal, closest_point.poblacion)

\* variant of Insert: equal keys end up in reverse order
InsertBeforeEqual(sorted, r) ==
  LET k == Cardinality({i \in DOMAIN sorted : sorted[i].num_points > r.num_points})
  IN SubSeq(sorted, 1, k) \o <<r>> \o SubSeq(sorted, k + 1, Len(sorted))

\* results.sort(key=lambda x: x["num_points"], reverse=True): a stable sort,
\* equal keys keep their order
Insert(sorted, r) ==
  LET k == Cardinality({i \in DOMAIN sorted : sorted[i].num_points >= r.num_points})
  IN SubSeq(sorted, 1, k) \o <<r>> \o SubSeq(sorted, k + 1, Len(sorted))

RECURSIVE SortFrom(_, _)
SortFrom(sorted, results) ==
  IF results = <<>> THEN sorted
  ELSE SortFrom(Insert(sorted, Head(results)), Tail(results))

\* variant of sort_reverse: the sort without reverse=True (ascending, stable)
InsertAscending(sorted, r) ==
  LET k == Cardinality({i \in DOMAIN sorted : sorted[i].num_points <= r.num_points})
  IN SubSeq(sorted, 1, k) \o <<r>> \o SubSeq(sorted, k + 1, Len(sorted))

RECURSIVE SortAscendingFrom(_, _)
SortAscendingFrom(sorted, results) ==
  IF results = <<>> THEN sorted
  ELSE SortAscendingFrom(InsertAscending(sorted, Head(results)), Tail(results))

sort_forward(results) == SortAscendingFrom(<<>>, results)

sort_reverse(results) == SortFrom(<<>>, results)

\* from the clustering to the return statement
SelectResult(header, rows, np_rows, clusters) ==
  LET label_centroids == LabelCentroids(np_rows, clusters, unique(clusters))
      results == sort_reverse([i \in DOMAIN label_centroids |->
                   ClosestPointResult(header, rows, np_rows, label_centroids[i])])
  IN IF results # <<>> THEN results[1]
     ELSE ResultDict(SentinelKeys, 0, 0, NoneCell, NoneCell, 0,
                     rows[1].codigo_postal, rows[1].poblacion)

\* the rows reach the clustering: every guard before it passes
Clusterable(f) ==
  /\ f.csv /\ f.readable /\ f.rows # <<>>
  /\ {"codigo_postal", "poblacion", "x", "y"} \subseteq f.header
  /\ \A i \in DOMAIN f.rows : f.rows[i].x.k = "num" /\ f.rows[i].y.k = "num"

\* how the call ends when it ends before the clustering
Rejected(f) ==
  IF ~f.csv THEN ReturnNone
  ELSE IF ~f.readable THEN ReturnNone
  ELSE IF f.rows = <<>> THEN Raise("IndexError")
  ELSE IF ~({"codigo_postal", "poblacion"} \subseteq f.header) THEN Raise("KeyError")
  ELSE IF ~({"x", "y"} \subseteq f.header) THEN ReturnNone
  ELSE IF \E i \in DOMAIN f.rows : ~float_ok(f.rows[i].x) \/ ~float_ok(f.rows[i].y)
       THEN ReturnNone
  ELSE Raise("ValueError")

\* one call of compute_centroid: the labels the clustering gave the rows
\* (<<>> when it never ran) and what the call yielded
CentroidRun(f) ==
  IF Clusterable(f)
  THEN LET np_rows == NpRows(f.rows)
           cl == fit_predict(np_rows)
       IN [clusters |-> cl, result |-> SelectResult(f.header, f.rows, np_rows, cl)]
  ELSE [clusters |-> <<>>, result |-> Rejected(f)]

compute_centroid(f) == CentroidRun(f).result

(***************************************************************************)
(* The partition files compute_centroid is applied to.  A layout is a      *)
(* sequence of blocks, each a number n of rows at one position p; its rows *)
(* are the blocks' rows in order, with id_porpk 1, 2, ...                   *)
(***************************************************************************)
Block(p, n) == [p |-> p, n |-> n]

RECURSIVE RowsUpTo(_, _)
RowsUpTo(layout, k) == IF k = 0 THEN 0 ELSE layout[k].n + RowsUpTo(layout, k - 1)

\* the block row i of the layout lies in
BlockOf(layout, i) ==
  CHOOSE k \in DOMAIN layout : RowsUpTo(layout, k - 1) < i /\ i <= RowsUpTo(layout, k)

\* the town (poblacion) the rows of block k carry: a postal code can span towns
Towns == <<"Alicante", "Elche", "Alcoy">>

TownOf(k) == Towns[(k % Len(Towns)) + 1]

RowsFrom(layout, cp) ==
  [i \in 1..RowsUpTo(layout, Len(layout)) |->
     LET k == BlockOf(layout, i)
     IN Row(Num(layout[k].p[1]), Num(layout[k].p[2]), i, cp, TownOf(k))]

\* site i: 200 m further east than site i - 1, alternately 0 and 100 m north,
\* so that neighbouring sites are within eps (223.6 m) and others are not
SitePos(i) == <<200 * (i - 1), IF i % 2 = 1 THEN 0 ELSE 100>>

Counts == {0, 1, min_samples - 1, min_samples}

SiteLayouts ==
  {[i \in 1..NumSites |-> Block(SitePos(i), c[i])] : c \in [1..NumSites -> Counts]}

\* eight groups of 7 on a ring of radius 300 (neighbours 229.5 m apart) and one
\* row at its centre, 300 m from every group
RingLayout ==
  <<Block(<<300, 0>>, 7), Block(<<212, 212>>, 7), Block(<<0, 300>>, 7),
    Block(<<-212, 212>>, 7), Block(<<-300, 0>>, 7), Block(<<-212, -212>>, 7),
    Block(<<0, -300>>, 7), Block(<<212, -212>>, 7), Block(<<0, 0>>, 1)>>

\* two dense groups, each reached through one core row, and between the two
\* core rows a row within eps of both that is no core sample itself
BorderLayout ==
  <<Block(<<0, 0>>, 19), Block(<<200, 100>>, 1), Block(<<400, 0>>, 1),
    Block(<<600, 100>>, 1), Block(<<800, 0>>, 21)>>

\* 25 rows at one place and 5 outliers more than 500 m from any other row
OutlierLayout ==
  <<Block(<<0, 0>>, 25), Block(<<1000, 0>>, 1), Block(<<1000, 600>>, 1),
    Block(<<1600, 0>>, 1), Block(<<1600, 600>>, 1), Block(<<2200, 0>>, 1)>>

\* 40 rows: a group of 20, a group of 19 and a single row, all far apart
TwentyOfFortyLayout ==
  <<Block(<<0, 0>>, 20), Block(<<1000, 0>>, 19), Block(<<2000, 0>>, 1)>>

\* two clusters of 21 and 20 rows and 3 noise rows, all far apart
ThreeGroupLayout ==
  <<Block(<<0, 0>>, 21), Block(<<1000, 0>>, 20), Block(<<2000, 0>>, 3)>>

\* a chain of three groups of 10 forming one cluster, and one noise row that is
\* more than eps from every group yet closer to their mean than the chain's ends
ChainLayout ==
  <<Block(<<0, 0>>, 10), Block(<<200, 100>>, 10), Block(<<400, 0>>, 10),
    Block(<<200, -160>>, 1)>>

NamedLayouts ==
  {RingLayout, BorderLayout, OutlierLayout, TwentyOfFortyLayout, ThreeGroupLayout,
   ChainLayout}

PartitionFile(rows) ==
  [csv |-> TRUE, readable |-> TRUE, header |-> PartitionColumns, rows |-> rows]

NoFile == [csv |-> FALSE, readable |-> FALSE, header |-> {}, rows |-> <<>>]

PartitionFiles ==
  {PartitionFile(RowsFrom(l, "03001")) : l \in SiteLayouts \cup NamedLayouts}

\* Files that are not what extract_postcodes writes: a path that does not end
\* in .csv, a file that cannot be read, a file without data rows (with or
\* without its header line), a file that lacks a column, and a file one of
\* whose cells is no finite number: text or "" (TextCell), a short line
\* (NoneCell), or "nan" / "inf" (NanCell).
WithCell(rows, i, column, cell) == [rows EXCEPT ![i][column] = cell]

SmallLayouts == {<<Block(<<0, 0>>, 1)>>, <<Block(<<0, 0>>, min_samples)>>}

BadCells == {TextCell, NoneCell, NanCell}

MalformedFiles ==
  LET good == {RowsFrom(l, "03001") : l \in SmallLayouts}
  IN {[PartitionFile(RowsFrom(RingLayout, "03001")) EXCEPT !.csv = FALSE],
      [PartitionFile(RowsFrom(RingLayout, "03001")) EXCEPT !.readable = FALSE],
      PartitionFile(<<>>),
      [PartitionFile(<<>>) EXCEPT !.header = {}]}
     \cup {[PartitionFile(r) EXCEPT !.header = PartitionColumns \ {c}] :
             r \in good, c \in PartitionColumns}
     \cup UNION {{PartitionFile(WithCell(r, i, c, cell)) :
                    i \in {1, Len(r)}, c \in {"x", "y"}, cell \in BadCells} : r \in good}
     \cup {PartitionFile(WithCell(WithCell(r, 1, "x", NanCell), Len(r), "y", TextCell)) :
             r \in good}

\* the row orders a file is processed in again
Reverse(rows) == [i \in DOMAIN rows |-> rows[Len(rows) + 1 - i]]

Rotate(rows) == IF rows = <<>> THEN rows ELSE Tail(rows) \o <<Head(rows)>>

RowOrders == {"reverse", "rotate"}

Permute(perm, rows) == IF perm = "reverse" THEN Reverse(rows) ELSE Rotate(rows)

(***************************************************************************)
(* extract_postcodes (dcac_postcodes/extract_postcodes.py).                *)
(*                                                                         *)
(* A feature of a dataset is [geom, x, y, id_porpk, codigo_postal,         *)
(* poblacion]: its geometry type, the metric coordinates the transformer   *)
(* gives its point (rounded to 3 decimals), and its properties; a missing  *)
(* codigo_postal is "".                                                    *)
(***************************************************************************)
Feature(geom, x, y, id, cp, town) ==
  [geom |-> geom, x |-> x, y |-> y, id_porpk |-> id, codigo_postal |-> cp,
   poblacion |-> town]

\* create_feature_dict(feature), for a Point
create_feature_dict(feature) ==
  Row(Num(feature.x), Num(feature.y), feature.id_porpk, feature.codigo_postal,
      feature.poblacion)

\* transform_coordinates returns None for a geometry that is not a Point, and
\* "x, y = None" in create_feature_dict raises TypeError
ConversionRaises(feature) == feature.geom # "Point"

\* the features of the stream that carry a postal code, as feature_dicts
KeptFeatures(features) ==
  LET kept == SelectSeq(features, LAMBDA f : f.codigo_postal # "")
  IN [i \in DOMAIN kept |-> create_feature_dict(kept[i])]

\* a variant that also takes "" for a postal code
PostcodesWithMissing(features) ==
  {features[i].codigo_postal : i \in DOMAIN features}

\* the keys of features_per_postcode
PostcodesOf(features) ==
  {features[i].codigo_postal : i \in DOMAIN features} \ {""}

\* a variant that writes every kept feature into every file
extract_postcodes_unpartitioned(features) ==
  IF \E i \in DOMAIN features : ConversionRaises(features[i])
  THEN [raised |-> TRUE, written |-> <<>>, postcodes |-> {}]
  ELSE [raised |-> FALSE,
        written |-> [cp \in PostcodesOf(features) |->
                       PartitionFile(KeptFeatures(features))],
        postcodes |-> PostcodesOf(features)]

\* a variant that writes each feature as it is read, up to the one that raises
extract_postcodes_streaming(features) ==
  LET failing == {i \in DOMAIN features : ConversionRaises(features[i])}
      read == IF failing = {} THEN features
              ELSE SubSeq(features, 1,
                          (CHOOSE i \in failing : \A j \in failing : i <= j) - 1)
      dicts == KeptFeatures(read)
  IN [raised |-> failing # {},
      written |-> [cp \in PostcodesOf(read) |->
                     PartitionFile(SelectSeq(dicts, LAMBDA d : d.codigo_postal = cp))],
      postcodes |-> IF failing = {} THEN PostcodesOf(read) ELSE {}]

\* One call: whether it raised, the partition files it wrote (by postal code)
\* and the list it returned.  Every feature is converted before any file is
\* written, so a call that raises writes nothing.
extract_postcodes(features) ==
  IF \E i \in DOMAIN features : ConversionRaises(features[i])
  THEN [raised |-> TRUE, written |-> <<>>, postcodes |-> {}]
  ELSE LET dicts == KeptFeatures(features)
           cps == PostcodesOf(features)
       IN [raised |-> FALSE,
           written |-> [cp \in cps |->
              PartitionFile(SelectSeq(dicts, LAMBDA d : d.codigo_postal = cp))],
           postcodes |-> cps]

(***************************************************************************)
(* The datasets extract_postcodes is applied to on its own: a dataset that *)
(* cannot be opened, and every stream of at most MaxFeatures features,     *)
(* each a Point or a LineString, with one of two postal codes or without   *)
(* one.  Feature i of a stream has id_porpk i and lies at x = 100 * i.     *)
(***************************************************************************)
MaxFeatures == 3

FeatureKinds ==
  {<<"Point", "03001">>, <<"Point", "03002">>, <<"Point", "">>,
   <<"LineString", "03001">>}

StreamOf(kinds) ==
  [i \in DOMAIN kinds |->
     Feature(kinds[i][1], 100 * i, 0, i, kinds[i][2], "Alicante")]

NoDataset == [openable |-> FALSE, features |-> <<>>]

GpkgFiles ==
  {NoDataset}
  \cup {[openable |-> TRUE, features |-> StreamOf(kinds)] :
          kinds \in UNION {[1..n -> FeatureKinds] : n \in 0..MaxFeatures}}

\* the output directory before the call: empty, or holding 03001.csv from an
\* earlier run
OutputDirs ==
  {<<>>, [cp \in {"03001"} |-> PartitionFile(<<Row(Num(5), Num(5), 99, "03001", "Elda")>>)]}

(***************************************************************************)
(* Process (postcodes/src/process.py).                                     *)
(***************************************************************************)
\* the keys of CARTOCIUDAD_PROVINCES_IDS, in order
Provinces == <<"alicante", "castellon", "valencia">>

\* the largest pool size (min(config.threads, os.cpu_count())) modelled
MaxProcesses == 2

\* what the download server holds for a province: n features of postal code
\* cp, all at one point
Dataset(cp, n) == [i \in 1..n |-> Feature("Point", 0, 0, i, cp, "Alicante")]

Datasets == {Dataset("03001", 1), Dataset("03001", min_samples), Dataset("46001", 1)}

\* what the server holds: any of the datasets for alicante and for valencia,
\* and a dataset with a postal code of its own for castellon
Servers ==
  {[province \in {Provinces[i] : i \in DOMAIN Provinces} |->
      IF province = "alicante" THEN a
      ELSE IF province = "valencia" THEN v
      ELSE Dataset("12001", 1)] : a, v \in Datasets}

\* what a download can end in: status not 200; an archive whose dataset is named
\* <province>.gpkg; an archive whose dataset has another name; an archive
\* holding no dataset
DownloadOutcomes == {"failed", "named", "renamed", "empty"}

\* how many times in a row get_province_data is called for one province
MaxCalls == 3

\* the largest number of rows of the travel-time script's input table
MaxRows == 3

\* os.cpu_count(): the machine has as many cores as the largest pool modelled
cpu_count == MaxProcesses

Min(a, b) == IF a <= b THEN a ELSE b

\* the name of the dataset file in the downloaded archive, under which
\* download_dataset stores it in data/provinces
ArchiveName(province, download) ==
  IF download = "named" THEN province ELSE "CARTOCIUDAD_" \o province

\* download_dataset(data_dir, id): data/provinces afterwards, and whether the
\* call raised (os.path.join(data_dir, None) for an archive without dataset)
download_dataset(dir, province, dataset, download) ==
  IF download \in {"named", "renamed"}
  THEN LET name == ArchiveName(province, download)
       IN [dir |-> [n \in DOMAIN dir \cup {name} |->
                      IF n = name THEN dataset ELSE dir[n]],
           raised |-> FALSE]
  ELSE [dir |-> dir, raised |-> download = "empty"]

\* get_province_data(province): data/provinces afterwards, whether the call
\* raised, whether it downloaded, and the path it returns: always
\* data/provinces/<province>.gpkg, named by the province here
get_province_data(province, force, dir, dataset, download) ==
  LET exists == province \in DOMAIN dir
      removed == IF force /\ exists
                 THEN [n \in DOMAIN dir \ {province} |-> dir[n]]
                 ELSE dir
  IN IF exists /\ ~force
     THEN [dir |-> dir, raised |-> FALSE, downloaded |-> FALSE, path |-> province]
     ELSE LET got == download_dataset(removed, province, dataset, download)
          IN [dir |-> got.dir, raised |-> got.raised, downloaded |-> TRUE,
              path |-> province]

\* variant of output_dir: one directory for all provinces
shared_output_dir(province, cp) == <<"postcodes", cp>>

\* os.path.join(output_dir, f"{postcode}.csv") with output_dir
\* data/postcodes/<province>
output_dir(province, cp) == <<province, cp>>

\* partition files left under data/postcodes by an earlier run: none, a good
\* one, one whose x column holds text, or one whose x column holds nan
StaleFile(x) == PartitionFile(<<Row(x, Num(0), 1, "03999", "Elda")>>)

StaleDirs ==
  {<<>>,
   [path \in {<<"alicante", "03999">>} |-> StaleFile(Num(0))],
   [path \in {<<"alicante", "03999">>} |-> StaleFile(TextCell)],
   [path \in {<<"alicante", "03999">>} |-> StaleFile(NanCell)]}

\* the sequences that list every element of S once (the orders os.walk can
\* list the files in)
RECURSIVE Orders(_)
Orders(S) ==
  IF S = {} THEN {<<>>}
  ELSE UNION {{<<e>> \o o : o \in Orders(S \ {e})} : e \in S}

\* lon, lat = transformer.transform(x, y), rounded to 6 decimals.  The value
\* is not computed: the cell says it is a number of degrees, got from v.
Degrees(cell) == [k |-> "deg", v |-> cell.v]

\* variant of WithLonLat: lat is never set
WithLonOnly(r) ==
  [ret |-> r.ret, keys |-> r.keys \cup {"lon", "lat"},
   pct |-> r.pct, num_points |-> r.num_points, x |-> r.x, y |-> r.y,
   id_porpk |-> r.id_porpk, codigo_postal |-> r.codigo_postal,
   poblacion |-> r.poblacion,
   lon |-> IF r.x # NoneCell /\ r.y # NoneCell THEN Degrees(r.x) ELSE NoneCell,
   lat |-> NoneCell]

\* the loop that adds lon and lat to every result that is not None
WithLonLat(r) ==
  LET both == r.x # NoneCell /\ r.y # NoneCell
  IN [ret |-> r.ret, keys |-> r.keys \cup {"lon", "lat"},
      pct |-> r.pct, num_points |-> r.num_points, x |-> r.x, y |-> r.y,
      id_porpk |-> r.id_porpk, codigo_postal |-> r.codigo_postal,
      poblacion |-> r.poblacion,
      lon |-> IF both THEN Degrees(r.x) ELSE NoneCell,
      lat |-> IF both THEN Degrees(r.y) ELSE NoneCell]

\* writer.writerow(result) raises: AttributeError for None, ValueError for a
\* dictionary with a key that is not among the fieldnames
WriterowRaises(fieldnames, r) == r.ret # "dict" \/ ~(r.keys \subseteq fieldnames)

\* the rows written before the first writerow that raises
RECURSIVE WrittenRows(_, _)
WrittenRows(fieldnames, results) ==
  IF results = <<>> \/ WriterowRaises(fieldnames, Head(results)) THEN <<>>
  ELSE <<Head(results)>> \o WrittenRows(fieldnames, Tail(results))

NoTable == [exists |-> FALSE, fieldnames |-> {}, rows |-> <<>>]

\* the with-block that writes data/postcodes.csv: the table it leaves, and
\* whether it ran to its end
WriteTable(results) ==
  IF results = <<>> \/ results[1].ret # "dict"
  THEN [table |-> [exists |-> TRUE, fieldnames |-> {}, rows |-> <<>>], ok |-> FALSE]
  ELSE LET fieldnames == results[1].keys
           written == WrittenRows(fieldnames, results)
       IN [table |-> [exists |-> TRUE, fieldnames |-> fieldnames, rows |-> written],
           ok |-> Len(written) = Len(results)]

(***************************************************************************)
(* State.                                                                  *)
(*  SpecCentroid                                                           *)
(*   postcode_file  the partition file compute_centroid is applied to      *)
(*   clusters       the labels the clustering gave its rows                *)
(*   result         what compute_centroid yielded for it                   *)
(*   unshuffled     what it yielded for the file before its rows were      *)
(*                  permuted                                               *)
(*   stage          "file", "computed", "shuffled"                         *)
(*  Spec                                                                   *)
(*   pc             where Process.process() is: "start", in the pool.map   *)
(*                  of "get_data", "get_points" or "get_centroids", or     *)
(*                  "done"                                                 *)
(*   crashed        an exception left process(), at pc                     *)
(*   threads        config.threads                                         *)
(*   processes      self.processes, the size of every pool                 *)
(*   downloads      province -> how get_province_data got its dataset:     *)
(*                  "kept" (no download) or the outcome of the download    *)
(*   server         province -> the dataset a download of it would bring   *)
(*   provinces_dir  data/provinces: file name -> dataset (the name of      *)
(*                  <province>.gpkg is the province)                       *)
(*   postcodes_dir  data/postcodes: <<province, postal code>> -> file      *)
(*   tasks          the inputs given to the running pool.map, in order     *)
(*   started        how many of them a worker has taken (in order)         *)
(*   outcomes       task index -> how the task ended, for finished tasks   *)
(*   seen           the postal codes the extract_postcodes calls returned  *)
(*   table          data/postcodes.csv                                     *)
(*  SpecExtract                                                            *)
(*   gpkg           the dataset extract_postcodes is applied to            *)
(*   output_path    the partition files of the output directory, by postal *)
(*                  code                                                   *)
(*   output_before  the same before the call                               *)
(*   returned       whether the call raised, and the list it returned      *)
(*   phase          "dataset", "extracted"                                 *)
(*  SpecAcquire                                                            *)
(*   the_province   the province get_province_data is called for           *)
(*   config_force   config.force                                           *)
(*   data_dir       data/provinces: file name -> dataset                   *)
(*   calls          the calls made so far: whether each downloaded, how    *)
(*                  the download ended, whether the call raised, and       *)
(*                  whether a file is at the returned path afterwards      *)
(*  SpecTravel                                                             *)
(*   data           the rows of the input table (id, lat, lon)             *)
(*   osrm           what the routing server answers: "routes", "no_routes" *)
(*   permutations   the work list: origin id -> its (origin, destination)  *)
(*                  entries                                                *)
(*   travel_results the flattened results of get_travel_time               *)
(*   output         the rows written to the output table                   *)
(*   step           "input", "listed", "queried", "written", "done";       *)
(*                  "exit" after exit(1), "failed" after an exception      *)
(***************************************************************************)
VARIABLES postcode_file, clusters, result, unshuffled, stage,
          pc, crashed, processes, server, provinces_dir, postcodes_dir,
          tasks, started, outcomes, seen, table, threads, downloads,
          gpkg, output_path, output_before, returned, phase,
          the_province, config_force, data_dir, calls,
          data, osrm, permutations, travel_results, output, step

centroidVars == <<postcode_file, clusters, result, unshuffled, stage>>

processVars ==
  <<pc, crashed, processes, server, provinces_dir, postcodes_dir, tasks, started,
    outcomes, seen, table, threads, downloads>>

extractVars == <<gpkg, output_path, output_before, returned, phase>>

acquireVars == <<the_province, config_force, data_dir, calls>>

travelVars == <<data, osrm, permutations, travel_results, output, step>>

vars == <<centroidVars, processVars, extractVars, acquireVars, travelVars>>

\* Process.process() is not running
ProcessIdle ==
  /\ pc = "idle"
  /\ crashed = FALSE
  /\ processes = 1
  /\ threads = 1
  /\ downloads = <<>>
  /\ server = <<>>
  /\ provinces_dir = <<>>
  /\ postcodes_dir = <<>>
  /\ tasks = <<>>
  /\ started = 0
  /\ outcomes = <<>>
  /\ seen = {}
  /\ table = NoTable

\* get_province_data is not called on its own
AcquireIdle ==
  /\ the_province = ""
  /\ config_force = FALSE
  /\ data_dir = <<>>
  /\ calls = <<>>

\* the travel-time script is not run
TravelIdle ==
  /\ data = <<>>
  /\ osrm = ""
  /\ permutations = <<>>
  /\ travel_results = <<>>
  /\ output = <<>>
  /\ step = "idle"

\* no dataset is given to extract_postcodes on its own
ExtractIdle ==
  /\ gpkg = NoDataset
  /\ output_path = <<>>
  /\ output_before = <<>>
  /\ returned = [raised |-> FALSE, postcodes |-> {}]
  /\ phase = "idle"

\* no partition file is given to compute_centroid on its own
CentroidIdle ==
  /\ postcode_file = NoFile
  /\ clusters = <<>>
  /\ result = ReturnNone
  /\ unshuffled = ReturnNone
  /\ stage = "idle"

InitCentroid ==
  /\ postcode_file \in PartitionFiles \cup MalformedFiles
  /\ clusters = <<>>
  /\ result = ReturnNone
  /\ unshuffled = ReturnNone
  /\ stage = "file"
  /\ ProcessIdle
  /\ ExtractIdle
  /\ AcquireIdle
  /\ TravelIdle

\* compute_centroid(postcode_path)
ComputeCentroid ==
  /\ stage = "file"
  /\ LET run == CentroidRun(postcode_file)
     IN result' = run.result /\ clusters' = run.clusters
  /\ stage' = "computed"
  /\ UNCHANGED <<postcode_file, unshuffled>>
  /\ UNCHANGED <<processVars, extractVars, acquireVars, travelVars>>

\* the same rows in another order, processed again
Shuffle ==
  /\ stage = "computed"
  /\ \E perm \in RowOrders :
       LET f == [postcode_file EXCEPT !.rows = Permute(perm, postcode_file.rows)]
           run == CentroidRun(f)
       IN /\ postcode_file' = f
          /\ result' = run.result
          /\ clusters' = run.clusters
  /\ unshuffled' = result
  /\ stage' = "shuffled"
  /\ UNCHANGED <<processVars, extractVars, acquireVars, travelVars>>

NextCentroid == ComputeCentroid \/ Shuffle

SpecCentroid == InitCentroid /\ [][NextCentroid]_vars

(***************************************************************************)
(* extract_postcodes on its own.                                           *)
(***************************************************************************)
InitExtract ==
  /\ gpkg \in GpkgFiles
  /\ output_path \in OutputDirs
  /\ output_before = output_path
  /\ returned = [raised |-> FALSE, postcodes |-> {}]
  /\ phase = "dataset"
  /\ ProcessIdle
  /\ CentroidIdle
  /\ AcquireIdle
  /\ TravelIdle

\* extract_postcodes(gpkg_path, output_path): fiona.open raises for a dataset
\* that cannot be opened; a file the call writes replaces the one of that name
ExtractPostcodes ==
  /\ phase = "dataset"
  /\ IF ~gpkg.openable
     THEN /\ returned' = [raised |-> TRUE, postcodes |-> {}]
          /\ output_path' = output_path
     ELSE LET out == extract_postcodes(gpkg.features)
          IN /\ returned' = [raised |-> out.raised, postcodes |-> out.postcodes]
             /\ output_path' =
                  [cp \in DOMAIN output_path \cup DOMAIN out.written |->
                     IF cp \in DOMAIN out.written THEN out.written[cp]
                     ELSE output_path[cp]]
  /\ phase' = "extracted"
  /\ UNCHANGED <<gpkg, output_before>>
  /\ UNCHANGED <<centroidVars, processVars, acquireVars, travelVars>>

NextExtract == ExtractPostcodes

SpecExtract == InitExtract /\ [][NextExtract]_vars

(***************************************************************************)
(* get_province_data on its own, called MaxCalls times for one province.   *)
(***************************************************************************)
InitAcquire ==
  /\ the_province \in {Provinces[i] : i \in DOMAIN Provinces}
  /\ config_force \in BOOLEAN
  /\ data_dir \in {<<>>, [n \in {the_province} |-> Dataset("03001", 1)]}
  /\ calls = <<>>
  /\ ProcessIdle
  /\ CentroidIdle
  /\ ExtractIdle
  /\ TravelIdle

\* Process(config).get_province_data(province)
CallGetProvinceData ==
  /\ Len(calls) < MaxCalls
  /\ \E download \in (IF the_province \in DOMAIN data_dir /\ ~config_force THEN {"kept"}
                      ELSE DownloadOutcomes) :
       LET out == get_province_data(the_province, config_force, data_dir,
                                    Dataset("03001", min_samples), download)
       IN /\ data_dir' = out.dir
          /\ calls' = Append(calls, [downloaded |-> out.downloaded,
                                     download |-> download,
                                     raised |-> out.raised,
                                     exists |-> out.path \in DOMAIN out.dir])
  /\ UNCHANGED <<the_province, config_force>>
  /\ UNCHANGED <<centroidVars, processVars, extractVars, travelVars>>

NextAcquire == CallGetProvinceData

SpecAcquire == InitAcquire /\ [][NextAcquire]_vars

(***************************************************************************)
(* The travel-time script, travel_times.py, with --subset at its default   *)
(* 0 and the workers forked.  csv.DictReader gives every cell as a string. *)
(***************************************************************************)
\* the values of the id column: strings of five digits, which sort as the
\* numbers they spell
PostalCodes == {3001, 12001, 46001}

\* the lat and lon cells of a row: both numbers, one of them empty, or lat a
\* text that float() rejects
Coordinates == {<<"38.3", "-0.5">>, <<"", "-0.5">>, <<"38.3", "">>,
                <<"abc", "-0.5">>}

InputRows ==
  {[id |-> i, lat |-> c[1], lon |-> c[2]] : i \in PostalCodes, c \in Coordinates}

InputTables == UNION {[1..n -> InputRows] : n \in 0..MaxRows}

\* the truth value of a cell
Truthy(cell) == cell # ""

\* float(cell) returns
Parses(cell) == cell \in {"38.3", "-0.5"}

\* [row for row in data if row[args.lat] and row[args.lon]]
WithLatLon(d) == SelectSeq(d, LAMBDA row : Truthy(row.lat) /\ Truthy(row.lon))

\* data.sort(key=lambda x: x[args.id]): stable, rows of one id keep their order
RECURSIVE SortById(_)
SortById(d) ==
  IF d = <<>> THEN <<>>
  ELSE LET head == SortById(SubSeq(d, 1, Len(d) - 1))
           row == d[Len(d)]
           k == Cardinality({i \in DOMAIN head : head[i].id <= row.id})
       IN SubSeq(head, 1, k) \o <<row>> \o SubSeq(head, k + 1, Len(head))

\* (row[args.id], row[args.lon], row[args.lat])
Point(row) == <<row.id, row.lon, row.lat>>

\* the inner loop for the origin at position i: one entry per later row with
\* another id
EntriesOfRow(d, i) ==
  LET later == SelectSeq(SubSeq(d, i + 1, Len(d)), LAMBDA row : row.id # d[i].id)
  IN [k \in 1..Len(later) |-> <<Point(d[i]), Point(later[k])>>]

\* permutations[id]: the entries of every row with that id, in row order
RECURSIVE EntriesOf(_, _, _)
EntriesOf(d, id, i) ==
  IF i > Len(d) THEN <<>>
  ELSE (IF d[i].id = id THEN EntriesOfRow(d, i) ELSE <<>>) \o EntriesOf(d, id, i + 1)

\* the permutations dictionary built from the filtered and sorted rows
permutations_of(d) ==
  [id \in {d[i].id : i \in {j \in DOMAIN d : EntriesOfRow(d, j) # <<>>}} |->
     EntriesOf(d, id, 1)]

\* the keys of the dictionary in insertion order, which is ascending as the
\* rows are sorted
RECURSIVE KeysInOrder(_)
KeysInOrder(S) ==
  IF S = {} THEN <<>>
  ELSE LET least == CHOOSE a \in S : \A b \in S : a <= b
       IN <<least>> \o KeysInOrder(S \ {least})

\* query_osrm: (duration, distance), or None, written <<>>
query_osrm(answer) == IF answer = "routes" THEN <<"duration", "distance">> ELSE <<>>

\* get_travel_time(osrm_url, permutation)
get_travel_time(answer, permutation) ==
  LET originId == permutation[1][1]
      originLon == permutation[1][2]
      originLat == permutation[1][3]
      destId == permutation[2][1]
      destLon == permutation[2][2]
      destLat == permutation[2][3]
      forward == query_osrm(answer)
      backward == query_osrm(answer)
  IN IF ~(Truthy(originLon) /\ Truthy(originLat) /\ Truthy(destLon) /\ Truthy(destLat))
     THEN <<originId, destId, "None", "None">>
     ELSE IF Parses(originLon) /\ Parses(originLat) /\ Parses(destLon) /\ Parses(destLat)
     THEN IF forward # <<>> /\ backward # <<>>
          THEN <<originId, destId, forward[1], forward[2], backward[1], backward[2]>>
          ELSE <<originId, destId, "None", "None", "None", "None">>
     ELSE <<originId, destId, "None", "None">>

\* get_travel_time_per_postal_code(osrm_url, permutations): every result is a
\* tuple with elements, so each is appended
get_travel_time_per_postal_code(answer, entries) ==
  [k \in DOMAIN entries |-> get_travel_time(answer, entries[k])]

\* [item for sublist in results for item in sublist]
RECURSIVE Flatten(_)
Flatten(lists) ==
  IF lists = <<>> THEN <<>> ELSE lists[1] \o Flatten(SubSeq(lists, 2, Len(lists)))

\* the results before the first one that does not unpack into six fields
RECURSIVE Unpacked(_)
Unpacked(rs) ==
  IF rs = <<>> \/ Len(rs[1]) # 6 THEN <<>>
  ELSE <<rs[1]>> \o Unpacked(SubSeq(rs, 2, Len(rs)))

InitTravel ==
  /\ data \in InputTables
  /\ osrm \in {"routes", "no_routes"}
  /\ permutations = <<>>
  /\ travel_results = <<>>
  /\ output = <<>>
  /\ step = "input"
  /\ ProcessIdle
  /\ CentroidIdle
  /\ ExtractIdle
  /\ AcquireIdle

\* reading, filtering and sorting the rows and building the work list
BuildPermutations ==
  /\ step = "input"
  /\ LET sorted == SortById(WithLatLon(data))
         built == permutations_of(sorted)
     IN IF data = <<>> \/ sorted = <<>> \/ DOMAIN built = {}
        THEN /\ step' = "exit"
             /\ UNCHANGED permutations
        ELSE /\ step' = "listed"
             /\ permutations' = built
  /\ UNCHANGED <<data, osrm, travel_results, output>>
  /\ UNCHANGED <<centroidVars, processVars, extractVars, acquireVars>>

\* pool.map(partial_get_travel_times, permutations.values()), flattened
GetTravelTimes ==
  /\ step = "listed"
  /\ LET keys == KeysInOrder(DOMAIN permutations)
         lists == [k \in DOMAIN keys |->
                     get_travel_time_per_postal_code(osrm, permutations[keys[k]])]
     IN /\ travel_results' = Flatten(lists)
        /\ step' = IF Flatten(lists) = <<>> THEN "exit" ELSE "queried"
  /\ UNCHANGED <<data, osrm, permutations, output>>
  /\ UNCHANGED <<centroidVars, processVars, extractVars, acquireVars>>

\* the loop that writes one row per result: unpacking a result that has not
\* six fields raises ValueError
WriteResults ==
  /\ step = "queried"
  /\ output' = Unpacked(travel_results)
  /\ step' = IF Len(Unpacked(travel_results)) = Len(travel_results)
             THEN "written" ELSE "failed"
  /\ UNCHANGED <<data, osrm, permutations, travel_results>>
  /\ UNCHANGED <<centroidVars, processVars, extractVars, acquireVars>>

\* the JSON file and the statistics: abs(x[2] - x[4]) over every result raises
\* TypeError for a result whose times are None
WriteStats ==
  /\ step = "written"
  /\ step' = IF \E k \in DOMAIN travel_results : travel_results[k][3] = "None"
             THEN "failed" ELSE "done"
  /\ UNCHANGED <<data, osrm, permutations, travel_results, output>>
  /\ UNCHANGED <<centroidVars, processVars, extractVars, acquireVars>>

NextTravel ==
  \/ BuildPermutations
  \/ GetTravelTimes
  \/ WriteResults
  \/ WriteStats

SpecTravel == InitTravel /\ [][NextTravel]_vars

(***************************************************************************)
(* Process.process(): three pool.map calls in a row.  A pool hands its     *)
(* tasks to its workers in order, at most `processes` at a time; the tasks *)
(* end in any order; pool.map returns when all have ended, and raises in   *)
(* the parent if one of them raised.  With at most 4 * processes tasks, as *)
(* here, every task is a chunk of its own.                                 *)
(***************************************************************************)
Init ==
  /\ CentroidIdle
  /\ ExtractIdle
  /\ AcquireIdle
  /\ TravelIdle
  /\ pc = "start"
  /\ crashed = FALSE
  /\ threads \in 1..(MaxProcesses + 1)
  /\ processes = Min(threads, cpu_count)
  /\ downloads = <<>>
  /\ server \in Servers
  /\ provinces_dir \in {<<>>, server}
  /\ postcodes_dir \in StaleDirs
  /\ tasks = <<>>
  /\ started = 0
  /\ outcomes = <<>>
  /\ seen = {}
  /\ table = NoTable

Running == (1..started) \ DOMAIN outcomes

AllFinished == DOMAIN outcomes = DOMAIN tasks

Finish(i, outcome) ==
  outcomes' = [j \in DOMAIN outcomes \cup {i} |->
                 IF j = i THEN outcome ELSE outcomes[j]]

Dispatch(stage_name, inputs) ==
  /\ pc' = stage_name
  /\ tasks' = inputs
  /\ started' = 0
  /\ outcomes' = <<>>

\* get_data: pool.map(self.get_province_data, provinces), config.province = "all"
GetData ==
  /\ pc = "start"
  /\ Dispatch("get_data", Provinces)
  /\ UNCHANGED <<crashed, processes, threads, downloads, server, provinces_dir, postcodes_dir, seen, table>>
  /\ UNCHANGED <<centroidVars, extractVars, acquireVars, travelVars>>

\* variant of TaskStart: a task starts whether or not a worker is free
TaskStartUnbounded ==
  /\ pc \in {"get_data", "get_points", "get_centroids"}
  /\ ~crashed
  /\ started < Len(tasks)
  /\ started' = started + 1
  /\ UNCHANGED <<pc, crashed, processes, threads, downloads, server, provinces_dir,
                 postcodes_dir, tasks, outcomes, seen, table>>
  /\ UNCHANGED <<centroidVars, extractVars, acquireVars, travelVars>>

\* a worker of the pool takes the next task
TaskStart ==
  /\ pc \in {"get_data", "get_points", "get_centroids"}
  /\ ~crashed
  /\ started < Len(tasks)
  /\ Cardinality(Running) < processes
  /\ started' = started + 1
  /\ UNCHANGED <<pc, crashed, processes, threads, downloads, server, provinces_dir, postcodes_dir, tasks,
                 outcomes, seen, table>>
  /\ UNCHANGED <<centroidVars, extractVars, acquireVars, travelVars>>

\* get_province_data(province) in a worker, with config.force = False
GetProvinceData(i) ==
  /\ pc = "get_data"
  /\ i \in Running
  /\ LET province == tasks[i]
     IN \E download \in (IF province \in DOMAIN provinces_dir THEN {"kept"}
                         ELSE DownloadOutcomes) :
          LET out == get_province_data(province, FALSE, provinces_dir,
                                       server[province], download)
          IN /\ provinces_dir' = out.dir
             /\ Finish(i, [raised |-> out.raised, value |-> out.path])
             /\ downloads' = [q \in DOMAIN downloads \cup {province} |->
                                IF q = province THEN download ELSE downloads[q]]
  /\ UNCHANGED <<pc, crashed, processes, threads, server, postcodes_dir, tasks, started,
                 seen, table>>
  /\ UNCHANGED <<centroidVars, extractVars, acquireVars, travelVars>>

\* get_data returns the paths; get_points: pool.map(self.extract_province, datasets)
GetPoints ==
  /\ pc = "get_data"
  /\ ~crashed
  /\ AllFinished
  /\ IF \E i \in DOMAIN outcomes : outcomes[i].raised
     THEN /\ crashed' = TRUE
          /\ UNCHANGED <<pc, tasks, started, outcomes>>
     ELSE /\ Dispatch("get_points", [i \in DOMAIN tasks |-> outcomes[i].value])
          /\ UNCHANGED crashed
  /\ UNCHANGED <<processes, threads, downloads, server, provinces_dir, postcodes_dir, seen, table>>
  /\ UNCHANGED <<centroidVars, extractVars, acquireVars, travelVars>>

\* extract_province(dataset): fiona.open raises when the dataset file is missing
ExtractProvince(i) ==
  /\ pc = "get_points"
  /\ i \in Running
  /\ LET province == tasks[i]
     IN IF province \notin DOMAIN provinces_dir
        THEN /\ Finish(i, [raised |-> TRUE, value |-> {}])
             /\ UNCHANGED <<postcodes_dir, seen>>
        ELSE LET out == extract_postcodes(provinces_dir[province])
                 paths == {output_dir(province, cp) : cp \in DOMAIN out.written}
             IN /\ Finish(i, [raised |-> out.raised, value |-> out.postcodes])
                /\ postcodes_dir' =
                     [path \in DOMAIN postcodes_dir \cup paths |->
                        IF path \in paths THEN out.written[path[2]]
                        ELSE postcodes_dir[path]]
                /\ seen' = seen \cup out.postcodes
  /\ UNCHANGED <<pc, crashed, processes, threads, downloads, server, provinces_dir, tasks, started, table>>
  /\ UNCHANGED <<centroidVars, extractVars, acquireVars, travelVars>>

\* a variant that does not wait for the extractions to end
GetCentroidsEarly ==
  /\ pc = "get_points"
  /\ ~crashed
  /\ IF \E i \in DOMAIN outcomes : outcomes[i].raised
     THEN /\ crashed' = TRUE
          /\ UNCHANGED <<pc, tasks, started, outcomes>>
     ELSE /\ \E postcodes \in Orders(DOMAIN postcodes_dir) :
               Dispatch("get_centroids", postcodes)
          /\ UNCHANGED crashed
  /\ UNCHANGED <<processes, threads, downloads, server, provinces_dir, postcodes_dir, seen, table>>
  /\ UNCHANGED <<centroidVars, extractVars, acquireVars, travelVars>>

\* get_points returns; get_centroids walks data/postcodes and calls
\* pool.map(compute_centroid, postcodes)
GetCentroids ==
  /\ pc = "get_points"
  /\ ~crashed
  /\ AllFinished
  /\ IF \E i \in DOMAIN outcomes : outcomes[i].raised
     THEN /\ crashed' = TRUE
          /\ UNCHANGED <<pc, tasks, started, outcomes>>
     ELSE /\ \E postcodes \in Orders(DOMAIN postcodes_dir) :
               Dispatch("get_centroids", postcodes)
          /\ UNCHANGED crashed
  /\ UNCHANGED <<processes, threads, downloads, server, provinces_dir, postcodes_dir, seen, table>>
  /\ UNCHANGED <<centroidVars, extractVars, acquireVars, travelVars>>

\* compute_centroid(postcode_path) in a worker
ComputeTask(i) ==
  /\ pc = "get_centroids"
  /\ i \in Running
  /\ LET r == compute_centroid(postcodes_dir[tasks[i]])
     IN Finish(i, [raised |-> r.ret = "raise", value |-> r])
  /\ UNCHANGED <<pc, crashed, processes, threads, downloads, server, provinces_dir, postcodes_dir, tasks,
                 started, seen, table>>
  /\ UNCHANGED <<centroidVars, extractVars, acquireVars, travelVars>>

\* pool.map returns the results; lon and lat are added; the table is written
WriteCentroids ==
  /\ pc = "get_centroids"
  /\ ~crashed
  /\ AllFinished
  /\ IF \E i \in DOMAIN outcomes : outcomes[i].raised
     THEN /\ crashed' = TRUE
          /\ UNCHANGED <<pc, table>>
     ELSE LET results == [i \in DOMAIN tasks |->
                            IF outcomes[i].value.ret = "dict"
                            THEN WithLonLat(outcomes[i].value)
                            ELSE outcomes[i].value]
              out == WriteTable(results)
          IN /\ table' = out.table
             /\ pc' = IF out.ok THEN "done" ELSE pc
             /\ crashed' = ~out.ok
  /\ UNCHANGED <<processes, threads, downloads, server, provinces_dir, postcodes_dir, tasks, started,
                 outcomes, seen>>
  /\ UNCHANGED <<centroidVars, extractVars, acquireVars, travelVars>>

Next ==
  \/ GetData
  \/ TaskStart
  \/ \E i \in DOMAIN tasks : GetProvinceData(i)
  \/ GetPoints
  \/ \E i \in DOMAIN tasks : ExtractProvince(i)
  \/ GetCentroids
  \/ \E i \in DOMAIN tasks : ComputeTask(i)
  \/ WriteCentroids

Spec == Init /\ [][Next]_vars

(***************************************************************************)
(* Vocabulary of the properties of compute_centroid.                       *)
(***************************************************************************)
rows == postcode_file.rows

\* compute_centroid has run on postcode_file
Computed == stage \in {"computed", "shuffled"}

\* the call returned a representative record (not the sentinel, not None)
Representative == Computed /\ result.ret = "dict" /\ result.num_points # 0

\* the call returned the sentinel record
Sentinel(r) ==
  /\ r.ret = "dict" /\ r.num_points = 0 /\ r.pct = 0
  /\ r.x = NoneCell /\ r.y = NoneCell

ClusterLabels == {clusters[i] : i \in DOMAIN clusters} \ {-1}

ClusterSize(label) == Cardinality({i \in DOMAIN clusters : clusters[i] = label})

MaxClusterSize == CHOOSE n \in {ClusterSize(l) : l \in ClusterLabels} :
                    \A l \in ClusterLabels : ClusterSize(l) <= n

LargestClusters == {l \in ClusterLabels : ClusterSize(l) = MaxClusterSize}

\* the dominant cluster: the largest, and the lowest label among the largest
WinnerLabel == CHOOSE l \in LargestClusters : \A m \in LargestClusters : l <= m

\* the row of the file the result was copied from (id_porpk identifies a row)
ReturnedRows == {i \in DOMAIN rows : rows[i].id_porpk = result.id_porpk}

\* the sum of coordinate d ("x" or "y") over the members of a cluster among
\* the first k rows
RECURSIVE CoordSum(_, _, _)
CoordSum(label, d, k) ==
  IF k = 0 THEN 0
  ELSE (IF clusters[k] = label THEN rows[k][d].v ELSE 0) + CoordSum(label, d, k - 1)

Norm2(i) == rows[i].x.v * rows[i].x.v + rows[i].y.v * rows[i].y.v

\* twice the inner product of (row i - row j) with the coordinate sum of a cluster
TwiceDot(i, j, label) ==
  2 * ((rows[i].x.v - rows[j].x.v) * CoordSum(label, "x", Len(rows))
       + (rows[i].y.v - rows[j].y.v) * CoordSum(label, "y", Len(rows)))

\* row i is strictly closer than row j to the arithmetic mean m = S / n of the
\* members of a cluster:  |p_i - m|^2 < |p_j - m|^2  iff
\* n * (|p_i|^2 - |p_j|^2) < 2 * (p_i - p_j) . S
Closer(i, j, label) ==
  ClusterSize(label) * (Norm2(i) - Norm2(j)) < TwiceDot(i, j, label)

\* no row of the file is strictly closer to the cluster's mean than row i
Nearest(i, label) == \A j \in DOMAIN rows : ~Closer(j, i, label)

(***************************************************************************)
(* C2.  A partition file with at least one row and parseable coordinates   *)
(* whose rows are all labelled noise - in particular one with fewer than   *)
(* min_samples rows, or whose rows are pairwise farther apart than eps -   *)
(* yields the sentinel: num_points = 0, pct = 0, x = y = None, and the     *)
(* codigo_postal and poblacion of the file's first row.                    *)
(***************************************************************************)
AllNoise == \A i \in DOMAIN clusters : clusters[i] = -1

AllFartherThanEps ==
  \A i, j \in DOMAIN rows :
    i # j => Dist2(<<rows[i].x.v, rows[i].y.v>>, <<rows[j].x.v, rows[j].y.v>>) > eps * eps

C2_AllNoiseGivesSentinel ==
  (/\ Computed
   /\ Clusterable(postcode_file)
   /\ AllNoise \/ Len(rows) < min_samples \/ AllFartherThanEps)
  => /\ Sentinel(result)
     /\ result.codigo_postal = rows[1].codigo_postal
     /\ result.poblacion = rows[1].poblacion

\* min_samples or more rows, of more than one town, all noise, processed
C2_Witness ==
  /\ Computed /\ Clusterable(postcode_file) /\ AllNoise
  /\ Len(rows) >= min_samples
  /\ \E i \in DOMAIN rows : rows[i].poblacion # rows[1].poblacion
  /\ Sentinel(result)

(***************************************************************************)
(* C3.  Whenever the clustering yields at least one non-noise cluster, the *)
(* result's num_points is the largest member count over the non-noise      *)
(* clusters.                                                               *)
(***************************************************************************)
C3_NumPointsIsLargestCluster ==
  (Computed /\ ClusterLabels # {})
  => /\ result.ret = "dict"
     /\ result.num_points = MaxClusterSize

\* two clusters of different sizes, the larger one not the first label
C3_Witness ==
  /\ Computed
  /\ \E l \in ClusterLabels : l > 0 /\ ClusterSize(l) > ClusterSize(0)
  /\ result.num_points = MaxClusterSize

(***************************************************************************)
(* C4.  A representative's pct is num_points / total_rows * 100 rounded to *)
(* 2 decimals, total_rows counting every row of the file, noise rows and   *)
(* rows of other clusters included: pct (in hundredths) is the integer     *)
(* nearest to 10000 * num_points / total_rows, the even one at a tie.      *)
(* 25 of 30 rows give 83.33, 20 of 40 rows give 50.0.                      *)
(***************************************************************************)
Abs(a) == IF a < 0 THEN -a ELSE a

RoundedRatio(h, n, total) ==
  LET err == Abs(h * total - 10000 * n)
  IN /\ 2 * err <= total
     /\ 2 * err = total => h % 2 = 0

C4_PctOfTotalRows ==
  Representative
  => /\ RoundedRatio(result.pct, result.num_points, Len(rows))
     /\ (result.num_points = 25 /\ Len(rows) = 30) => result.pct = 8333
     /\ (result.num_points = 20 /\ Len(rows) = 40) => result.pct = 5000

\* a representative of a file that also holds noise rows and another cluster,
\* whose percentage is not a whole number of hundredths before rounding
C4_Witness ==
  /\ Representative
  /\ ~AllNoise /\ \E i \in DOMAIN clusters : clusters[i] = -1
  /\ Cardinality(ClusterLabels) > 1
  /\ (10000 * result.num_points) % Len(rows) # 0

(***************************************************************************)
(* C5.  A representative has 1 <= num_points <= total_rows and             *)
(* 0 <= pct <= 100.                                                        *)
(***************************************************************************)
C5_NumPointsAndPctInRange ==
  Representative
  => /\ 1 <= result.num_points /\ result.num_points <= Len(rows)
     /\ 0 <= result.pct /\ result.pct <= 100 * 100

\* a representative whose cluster is smaller than the file
C5_Witness == Representative /\ result.num_points < Len(rows)

(***************************************************************************)
(* C6.  A representative is a row of the file, and no row of the file is   *)
(* strictly closer than it to the arithmetic mean of the winning cluster.  *)
(***************************************************************************)
SameRecord(r, row) ==
  /\ r.x = row.x /\ r.y = row.y /\ r.id_porpk = row.id_porpk
  /\ r.codigo_postal = row.codigo_postal /\ r.poblacion = row.poblacion

C6_NearestRowToWinnerMean ==
  Representative
  => \E i \in DOMAIN rows : SameRecord(result, rows[i]) /\ Nearest(i, WinnerLabel)

\* a representative found among rows at different distances from the mean,
\* some of them outside the winning cluster
C6_Witness ==
  /\ Representative
  /\ \E i, j \in DOMAIN rows : Closer(i, j, WinnerLabel)
  /\ \E i \in DOMAIN rows : clusters[i] # WinnerLabel
  /\ \E i \in ReturnedRows : Nearest(i, WinnerLabel)

(***************************************************************************)
(* C7.  As claimed: a representative is itself a member of the winning     *)
(* cluster, never a noise row and never a member of another cluster.       *)
(***************************************************************************)
C7_RepresentativeIsWinnerMember ==
  Representative
  => /\ ReturnedRows # {}
     /\ \A i \in ReturnedRows : clusters[i] = WinnerLabel

(***************************************************************************)
(* C7, amended.  The representative carries the winning cluster's          *)
(* num_points, and it is a member of the winning cluster whenever some     *)
(* member of that cluster is strictly closer to the cluster's mean than    *)
(* every row outside the cluster; otherwise it can be a noise row or a     *)
(* member of another cluster.                                              *)
(***************************************************************************)
MemberNearestToMean ==
  \E m \in DOMAIN rows :
    /\ clusters[m] = WinnerLabel
    /\ \A j \in DOMAIN rows : clusters[j] # WinnerLabel => Closer(m, j, WinnerLabel)

C7_MemberWhenAMemberIsNearest ==
  (Representative /\ MemberNearestToMean)
  => /\ result.num_points = ClusterSize(WinnerLabel)
     /\ ReturnedRows # {}
     /\ \A i \in ReturnedRows : clusters[i] = WinnerLabel

\* rows outside the winning cluster exist, one of them closer to the mean than
\* some member, and the representative is a member
C7_Witness ==
  /\ Representative /\ MemberNearestToMean
  /\ \E j, m \in DOMAIN rows :
       clusters[j] # WinnerLabel /\ clusters[m] = WinnerLabel /\ Closer(j, m, WinnerLabel)
  /\ \A i \in ReturnedRows : clusters[i] = WinnerLabel

(***************************************************************************)
(* C8.  As claimed: processing a permutation of a file's rows yields the   *)
(* same representative (same point, same num_points, same pct) as          *)
(* processing the file itself.                                             *)
(***************************************************************************)
C8_RowOrderInvariant ==
  stage = "shuffled"
  => /\ unshuffled.ret = result.ret
     /\ unshuffled.x = result.x /\ unshuffled.y = result.y
     /\ unshuffled.num_points = result.num_points
     /\ unshuffled.pct = result.pct

(***************************************************************************)
(* C9.  When two or more non-noise clusters have the same, maximal member  *)
(* count, the result is taken from the one with the lowest cluster label:  *)
(* the returned row is a row nearest to the mean of that cluster.          *)
(***************************************************************************)
LowestLargestLabel == CHOOSE l \in LargestClusters : \A m \in LargestClusters : l <= m

C9_TieGoesToLowestLabel ==
  (Representative /\ Cardinality(LargestClusters) >= 2)
  => /\ ReturnedRows # {}
     /\ \A i \in ReturnedRows : Nearest(i, LowestLargestLabel)

\* a tie between two clusters whose means have different nearest rows
C9_Witness ==
  /\ Representative /\ Cardinality(LargestClusters) >= 2
  /\ \A i \in ReturnedRows : Nearest(i, LowestLargestLabel)
  /\ \E l \in LargestClusters : \A i \in ReturnedRows : ~Nearest(i, l)

(***************************************************************************)
(* Vocabulary of the properties of Process.process().                      *)
(***************************************************************************)
\* the centroid stage is over: the table is written, or an exception left
\* get_centroids
CentroidStageOver == pc = "done" \/ (pc = "get_centroids" /\ crashed)

\* the rows of the final table that carry postal code cp
RowsOfCode(cp) == {j \in DOMAIN table.rows : table.rows[j].codigo_postal = cp}

(***************************************************************************)
(* C1.  As claimed: after Process.process() completes, the final table     *)
(* has exactly one row for each distinct postal code the partitioner saw   *)
(* (extract_postcodes over all provinces): none twice, none missing, also  *)
(* when a postal code occurs in the datasets of two provinces.             *)
(***************************************************************************)
C1_OneRowPerPostalCode ==
  pc = "done"
  => \A cp \in seen : Cardinality(RowsOfCode(cp)) = 1

(***************************************************************************)
(* C10.  As claimed: when compute_centroid returns no result for some      *)
(* partition files, get_centroids still completes and writes the final     *)
(* table with the rows of all the other partition files.                   *)
(***************************************************************************)
C10_FileErrorDoesNotStopBatch ==
  (/\ CentroidStageOver
   /\ \A i \in DOMAIN outcomes : ~outcomes[i].raised
   /\ \E i \in DOMAIN outcomes : outcomes[i].value.ret = "None")
  => /\ pc = "done"
     /\ \A i \in DOMAIN outcomes :
          outcomes[i].value.ret = "dict"
          => \E j \in DOMAIN table.rows : table.rows[j] = WithLonLat(outcomes[i].value)

(***************************************************************************)
(* Vocabulary of the file-level errors of compute_centroid.                *)
(***************************************************************************)
\* the path ends in .csv and the file can be read
Opened == postcode_file.csv /\ postcode_file.readable

\* the columns the function reads
ExpectedColumns == {"x", "y", "codigo_postal", "poblacion"}

\* the cell cannot be parsed as a finite number
NotFinite(cell) == cell.k # "num"

(***************************************************************************)
(* C12.  As claimed: for a file with at least one row that lacks one of    *)
(* the columns x, y, codigo_postal, poblacion, compute_centroid returns no *)
(* result and raises nothing.                                              *)
(***************************************************************************)
C12_MissingColumnReturnsNone ==
  (/\ Computed /\ Opened /\ rows # <<>>
   /\ \E c \in ExpectedColumns : c \notin postcode_file.header)
  => result.ret = "None"

(***************************************************************************)
(* C13.  As claimed: for a file with zero data rows (empty, or its header  *)
(* line only) compute_centroid returns no result and raises nothing.       *)
(***************************************************************************)
C13_NoRowsReturnsNone ==
  (Computed /\ Opened /\ rows = <<>>) => result.ret = "None"

(***************************************************************************)
(* C14.  As claimed: if some row has an x or y that is no finite number    *)
(* (empty, text, nan, inf), compute_centroid returns no result for the     *)
(* file - no representative, no sentinel - and raises nothing.             *)
(***************************************************************************)
C14_BadCoordinateReturnsNone ==
  (/\ Computed /\ Opened /\ rows # <<>>
   /\ ExpectedColumns \subseteq postcode_file.header
   /\ \E i \in DOMAIN rows : NotFinite(rows[i].x) \/ NotFinite(rows[i].y))
  => result.ret = "None"

(***************************************************************************)
(* Vocabulary of the properties of extract_postcodes.                      *)
(***************************************************************************)
features == gpkg.features

\* the call has ended, and it returned
Extracted == phase = "extracted"

Returned == Extracted /\ ~returned.raised

\* the rows of the partition file of postal code cp that carry feature i
RowsOfFeature(cp, i) ==
  IF cp \in DOMAIN output_path
  THEN {j \in DOMAIN output_path[cp].rows : output_path[cp].rows[j].id_porpk = i}
  ELSE {}

HasPostcode(i) == features[i].codigo_postal # ""

(***************************************************************************)
(* C16.  After extract_postcodes returns, every partition file it wrote    *)
(* holds only records of the postal code it is named after, and every      *)
(* feature with a postal code is in the file named after its postal code   *)
(* exactly once and in no other file.                                      *)
(***************************************************************************)
C16_PartitionsByPostalCode ==
  Returned
  => /\ \A cp \in returned.postcodes :
          /\ cp \in DOMAIN output_path
          /\ \A j \in DOMAIN output_path[cp].rows :
               output_path[cp].rows[j].codigo_postal = cp
     /\ \A i \in DOMAIN features :
          HasPostcode(i)
          => \A cp \in DOMAIN output_path :
               Cardinality(RowsOfFeature(cp, i))
                 = IF cp = features[i].codigo_postal THEN 1 ELSE 0
     /\ \A i \in DOMAIN features :
          HasPostcode(i) => features[i].codigo_postal \in returned.postcodes

\* a returned call on features of two postal codes, two of them of one code, into
\* a directory that held a file already
C16_Witness ==
  /\ Returned
  /\ Cardinality(returned.postcodes) = 2
  /\ \E i, j \in DOMAIN features :
       i # j /\ HasPostcode(i) /\ features[i].codigo_postal = features[j].codigo_postal
  /\ output_before # <<>>

(***************************************************************************)
(* C17.  A feature without codigo_postal is skipped without error: it is   *)
(* in no partition file and not in the returned list, and the features     *)
(* that follow it are still extracted.                                     *)
(***************************************************************************)
AllPoints == \A i \in DOMAIN features : features[i].geom = "Point"

C18_NonPointKeptWithNullCoordinates ==
  (Extracted /\ gpkg.openable)
  => /\ ~returned.raised
     /\ \A i \in DOMAIN features :
          (features[i].geom # "Point" /\ HasPostcode(i))
          => \E j \in RowsOfFeature(features[i].codigo_postal, i) :
               LET row == output_path[features[i].codigo_postal].rows[j]
               IN row.x = NoneCell /\ row.y = NoneCell

(***************************************************************************)
(* C19.  If the dataset cannot be opened, or reading or converting a       *)
(* feature raises, the call has created or modified no partition file.     *)
(***************************************************************************)
C19_NoPartialWrite ==
  (Extracted /\ returned.raised) => output_path = output_before

\* a call that raised on a feature that came after a feature of postal code
\* 03001, in a directory that held 03001.csv already
C19_Witness ==
  /\ Extracted /\ returned.raised /\ gpkg.openable
  /\ \E i, j \in DOMAIN features :
       /\ i < j /\ features[i].geom = "Point" /\ features[i].codigo_postal = "03001"
       /\ features[j].geom # "Point"
  /\ "03001" \in DOMAIN output_before
  /\ output_path = output_before

(***************************************************************************)
(* Vocabulary of the stages of Process.process().                          *)
(***************************************************************************)
\* a worker of the running pool raised
WorkerRaised == \E i \in DOMAIN outcomes : outcomes[i].raised

\* every task of the running pool has ended
EveryTaskEnded == \A i \in DOMAIN tasks : i \in DOMAIN outcomes

(***************************************************************************)
(* C11.  As claimed: an exception raised by a worker for one province (in  *)
(* get_points) or one partition file (in get_centroids) is caught: it      *)
(* never leaves the stage, so that the run can still reach completion and  *)
(* write the table for the remaining units.                                *)
(***************************************************************************)
C11_WorkerExceptionIsContained ==
  (pc \in {"get_points", "get_centroids"} /\ WorkerRaised) => ~crashed

(***************************************************************************)
(* C15.  Stage boundaries are barriers: the extractions are dispatched     *)
(* only when every acquisition task has ended, the centroid computations   *)
(* only when every extraction has ended, and the table is opened for       *)
(* writing only when every centroid computation has ended; a task starts   *)
(* only within its own stage.                                              *)
(***************************************************************************)
C15_StageBarriers ==
  [][/\ (pc = "get_data" /\ pc' = "get_points") => EveryTaskEnded
     /\ (pc = "get_points" /\ pc' = "get_centroids") => EveryTaskEnded
     /\ table' # table => (pc = "get_centroids" /\ EveryTaskEnded)
     /\ started' > started => (pc' = pc /\ tasks' = tasks)
     /\ pc' # pc =>
          <<pc, pc'>> \in {<<"start", "get_data">>, <<"get_data", "get_points">>,
                           <<"get_points", "get_centroids">>,
                           <<"get_centroids", "done">>}]_vars

\* a run with two workers that went through the three stages, each with several
\* tasks, and wrote the table
C15_Witness ==
  /\ pc = "done" /\ table.exists
  /\ processes >= 2 /\ Len(tasks) >= 2

(***************************************************************************)
(* C20.  As claimed: for every non-empty list of results without None, in  *)
(* any order and any mix of sentinels and representatives, get_centroids   *)
(* writes every result as a row of a table whose columns include pct,      *)
(* num_points, codigo_postal, poblacion, x, y, lon, lat and the fields     *)
(* the representatives carry (id_porpk, tipo_vial).                        *)
(***************************************************************************)
TableColumns == {"pct", "num_points", "codigo_postal", "poblacion", "x", "y", "lon", "lat"}

C20_EveryResultWritten ==
  (/\ CentroidStageOver
   /\ tasks # <<>> /\ ~WorkerRaised
   /\ \A i \in DOMAIN outcomes : outcomes[i].value.ret = "dict")
  => /\ pc = "done"
     /\ Len(table.rows) = Len(tasks)
     /\ TableColumns \subseteq table.fieldnames
     /\ (\E i \in DOMAIN outcomes : outcomes[i].value.num_points # 0)
          => {"id_porpk", "tipo_vial"} \subseteq table.fieldnames

(***************************************************************************)
(* C21.  In the final table every row has lon and lat both null exactly    *)
(* when its x or y is null, and both set when x and y are set; no row has  *)
(* only one of lon and lat.                                                *)
(***************************************************************************)
C21_LonLatNullWithXY ==
  \A j \in DOMAIN table.rows :
    LET r == table.rows[j]
    IN /\ (r.lon = NoneCell) <=> (r.lat = NoneCell)
       /\ (r.lon = NoneCell) <=> (r.x = NoneCell \/ r.y = NoneCell)

\* a written table that holds a sentinel row and a representative row
C21_Witness ==
  /\ pc = "done"
  /\ \E j \in DOMAIN table.rows : table.rows[j].x = NoneCell /\ table.rows[j].lon = NoneCell
  /\ \E j \in DOMAIN table.rows : table.rows[j].x # NoneCell /\ table.rows[j].lat # NoneCell

(***************************************************************************)
(* C26.  Rows labelled -1 are left out of the candidates: no candidate     *)
(* has label -1, the candidates are the other labels, and a candidate's    *)
(* member count and mean (sum of coordinates over count) are taken over    *)
(* the rows of its own label only.                                         *)
(***************************************************************************)
Candidates == LabelCentroids(NpRows(rows), clusters, unique(clusters))

C26_NoiseNotAmongCandidates ==
  (Computed /\ Clusterable(postcode_file))
  => /\ {Candidates[k].label : k \in DOMAIN Candidates} = ClusterLabels
     /\ \A k \in DOMAIN Candidates :
          LET c == Candidates[k]
          IN /\ c.label # -1
             /\ c.num_points = ClusterSize(c.label)
             /\ c.centroid.n = ClusterSize(c.label)
             /\ c.centroid.sx = CoordSum(c.label, "x", Len(rows))
             /\ c.centroid.sy = CoordSum(c.label, "y", Len(rows))

\* a file with noise rows away from the origin and two clusters
C26_Witness ==
  /\ Computed /\ Clusterable(postcode_file)
  /\ Cardinality(ClusterLabels) >= 2
  /\ \E i \in DOMAIN clusters : clusters[i] = -1 /\ rows[i].x.v # 0
  /\ Len(Candidates) = Cardinality(ClusterLabels)

(***************************************************************************)
(* C23.  As claimed: an acquisition error for one province (a download     *)
(* that returns a status other than 200, or an archive without a dataset)  *)
(* is fatal for that province only: no exception leaves the acquisition    *)
(* or the partition stage because of it, so that the other provinces are   *)
(* still acquired, partitioned and written to the final table.             *)
(***************************************************************************)
AcquisitionErrors == {q \in DOMAIN downloads : downloads[q] \in {"failed", "empty"}}

C23_AcquisitionErrorIsLocal ==
  (AcquisitionErrors # {} /\ pc \in {"get_data", "get_points"}) => ~crashed

(***************************************************************************)
(* C27.  In every stage the number of input units in progress never        *)
(* exceeds min(config.threads, os.cpu_count()), and the units of the stage *)
(* are all listed before the first is dispatched: the provinces in         *)
(* get_data and get_points, every file under data/postcodes in             *)
(* get_centroids.                                                          *)
(***************************************************************************)
InProgress == {i \in 1..started : i \notin DOMAIN outcomes}

C27_BoundedPool ==
  /\ Cardinality(InProgress) <= (IF threads <= cpu_count THEN threads ELSE cpu_count)
  /\ pc \in {"get_data", "get_points"} => tasks = Provinces
  /\ pc = "get_centroids"
       => /\ {tasks[i] : i \in DOMAIN tasks} = DOMAIN postcodes_dir
          /\ Len(tasks) = Cardinality(DOMAIN postcodes_dir)

\* more threads configured than cores: every core is busy and a task waits
C27_Witness ==
  /\ threads > cpu_count
  /\ pc = "get_centroids"
  /\ Cardinality(InProgress) = cpu_count /\ cpu_count >= 2
  /\ started < Len(tasks)

(***************************************************************************)
(* C28.  No two workers that run at the same time write to the same file   *)
(* path: in the partition stage the files of two provinces differ even     *)
(* when the provinces hold the same postal code, in the acquisition stage  *)
(* the dataset files differ, and the centroid workers write nothing.       *)
(***************************************************************************)
WritePaths(i) ==
  IF pc = "get_points" /\ tasks[i] \in DOMAIN provinces_dir
  THEN {output_dir(tasks[i], cp) : cp \in PostcodesOf(provinces_dir[tasks[i]])}
  ELSE IF pc = "get_data"
  THEN {<<"provinces", ArchiveName(tasks[i], d)>> : d \in {"named", "renamed"}}
  ELSE {}

C30_OnlyFilesOfThisRun ==
  pc = "done"
  => \A j \in DOMAIN table.rows : table.rows[j].codigo_postal \in seen

(***************************************************************************)
(* C22.  As claimed: after a call of get_province_data has acquired the    *)
(* province's dataset (the download returned an archive with a dataset,    *)
(* or the file was there), the next call with force = False downloads      *)
(* nothing and returns a path at which a file exists; and a call downloads *)
(* only when the file at the path it returns was absent or force is set.   *)
(***************************************************************************)
Acquired(call) == ~call.raised /\ call.download \in {"kept", "named", "renamed"}

C22_AcquisitionIdempotent ==
  \A k \in DOMAIN calls :
    (k > 1 /\ Acquired(calls[k - 1]) /\ ~config_force)
    => ~calls[k].downloaded /\ calls[k].exists

(***************************************************************************)
(* C24.  As claimed: for any input table, the work list holds exactly one  *)
(* entry for every unordered pair of distinct postal codes that have a row *)
(* with non-empty lat and lon, no entry from a postal code to itself, and  *)
(* no entry made of a row with empty lat or lon.                           *)
(***************************************************************************)
WorkList == Flatten([k \in DOMAIN KeysInOrder(DOMAIN permutations) |->
                       permutations[KeysInOrder(DOMAIN permutations)[k]]])

WithCoordinates ==
  {data[i].id : i \in {j \in DOMAIN data : Truthy(data[j].lat) /\ Truthy(data[j].lon)}}

C24_EveryPairOnce ==
  step = "listed"
  => /\ \A a, b \in WithCoordinates :
          a # b => Cardinality({k \in DOMAIN WorkList :
                                  {WorkList[k][1][1], WorkList[k][2][1]} = {a, b}}) = 1
     /\ \A k \in DOMAIN WorkList :
          /\ WorkList[k][1][1] # WorkList[k][2][1]
          /\ \A side \in 1..2 : Truthy(WorkList[k][side][2]) /\ Truthy(WorkList[k][side][3])

(***************************************************************************)
(* C29.  As claimed: every result of get_travel_time has six fields, and   *)
(* the loop that writes the results never fails on one.                    *)
(***************************************************************************)
C29_AlwaysSixFields ==
  /\ \A k \in DOMAIN travel_results : Len(travel_results[k]) = 6
  /\ step = "failed" => Len(output) = Len(travel_results)

====
